---- MODULE Spec2Model ----
(***************************************************************************)
(* Model of splunk-cli's asynchronous job lifecycle: the run command       *)
(* (cmd/run.go), the poll loop Client.WaitForJob, the choice reader        *)
(* getChoiceFromTTY, and the signal / timer / terminal environment they    *)
(* wait on; the start command and StartSearch's query normalisation; the   *)
(* results command and the paginated Client.Results; CancelSearch.         *)
(*                                                                         *)
(* Go strings that the code inspects character by character (message       *)
(* severities, the operator's input line) are sequences of one-character   *)
(* strings.  Formatted error texts are sequences of the pieces the format  *)
(* verb concatenates.                                                      *)
(***************************************************************************)
EXTENDS Integers, Sequences, FiniteSets, TLC

VARIABLES
    pcMain,        \* position of runCmd
    ret,           \* runCmd's return value (an error value, ErrNil for nil)
    stdout,        \* number of payloads written to standard output
    prompted,      \* the ^C prompt has been printed
    acted,         \* which branch of the outer select runCmd took
    pcPoll,        \* position of the WaitForJob goroutine
    errChan,       \* channel errChan (capacity 1) as a sequence
    tickReady,     \* a tick is buffered in ticker.C
    ticks,         \* ticks produced so far
    ctxState,      \* "none" (not created), "live", or the ctx.Err() kind
    lastResp,      \* the status response on which WaitForJob returned
    sigChan,       \* signals buffered in sigChan (capacity 2)
    sigNotify,     \* sigChan is registered with signal.Notify
    secondSigChan, \* signals buffered in secondSigChan (capacity 1)
    secondNotify,  \* secondSigChan is registered with signal.Notify
    signals,       \* signals the operating system has delivered so far
    killed,        \* the process died by a signal's default disposition
    pcChoice,      \* position of the getChoiceFromTTY goroutine
    line,          \* the raw line the terminal read returned
    choice,        \* what getChoiceFromTTY returns
    submitReqs,    \* job-creation requests sent
    statusReqs,    \* job-status requests sent
    resultsReqs,   \* results requests sent
    cancelReqs,    \* cancel requests sent
    firstEvent,    \* which of poll result / deadline / interrupt occurred first
    lateSignals,   \* signals delivered after the first and before the answer
    promptPolls,   \* status requests sent while the prompt was pending
    lateDeadlinePoll, \* a status request was sent after the deadline elapsed
    deadlineIdle,    \* the deadline elapsed while WaitForJob sat in its select
    lateInterrupt, \* a signal arrived after run had taken the wait's result
    query,         \* the SPL query handed to StartSearch
    searchField,   \* the search form field of the job-creation request sent
    limit,         \* cfg.Limit
    total,         \* the number of results the job holds on the server
    pcFetch,       \* position of the paginated Client.Results
    fetchCount,    \* Results' fetchCount
    offset,        \* Results' loop variable offset
    allResults,    \* Results' allResults, as the runs of records appended
    pageReqs,      \* the results requests sent, in order, by their parameters
    payload,       \* the records of the payload Results returned
    fetchErr,      \* the error Results returned
    inexact,       \* some page reply was not exactly the range requested
    served,        \* the number of records each page reply held, in request order
    failedAt,      \* the number of page requests sent when one failed
    cancelReq,     \* the cancel request sent
    cancelResp,    \* the reply to the cancel request
    pollFailures,  \* status requests of WaitForJob that failed
    statusAfterFail, \* status requests WaitForJob sent after one had failed
    startResp,     \* the reply to the job-creation request
    statusReply,   \* the reply on which a JobStatus call of WaitForJob failed
    cmdStatus,     \* the status resultsCmd's own JobStatus call reported
    fileCfg,       \* the configuration file's fields
    envCfg,        \* the SPLUNK_* environment variables
    flagCfg,       \* the command-line flags given
    entry,         \* what the operator types at a credential prompt
    cfg,           \* the Config the command works with
    sent           \* the requests sent, by URL and Authorization header

vars == << pcMain, ret, stdout, prompted, acted, pcPoll, errChan, tickReady,
           ticks, ctxState, lastResp, sigChan, sigNotify, secondSigChan,
           secondNotify, signals, killed, pcChoice, line, choice, submitReqs,
           statusReqs, resultsReqs, cancelReqs, firstEvent, lateSignals,
           promptPolls, lateDeadlinePoll, deadlineIdle, lateInterrupt, query, searchField,
           limit, total, pcFetch, fetchCount, offset, allResults, pageReqs,
           payload, fetchErr, inexact, failedAt, served,
           cancelReq, cancelResp, pollFailures, statusAfterFail, startResp,
           statusReply, cmdStatus, fileCfg, envCfg, flagCfg, entry, cfg, sent >>

mainVars == << pcMain, ret, stdout, prompted, acted >>
pollVars == << pcPoll, errChan, lastResp >>
timeVars == << tickReady, ticks, ctxState >>
sigVars == << sigChan, sigNotify, secondSigChan, secondNotify, signals, killed >>
choiceVars == << pcChoice, line, choice >>
reqVars == << submitReqs, statusReqs, resultsReqs, cancelReqs >>
ghostVars == << firstEvent, lateSignals, promptPolls, lateDeadlinePoll,
               deadlineIdle, lateInterrupt >>
startVars == << query, searchField >>
fetchVars == << limit, total, pcFetch, fetchCount, offset, allResults, pageReqs,
               payload, fetchErr, inexact, failedAt, served >>
cancelVars == << cancelReq, cancelResp >>
retryVars == << pollFailures, statusAfterFail >>
replyVars == << startResp, statusReply, cmdStatus >>
cfgVars == << fileCfg, envCfg, flagCfg, entry, cfg >>
extraVars == << startVars, fetchVars, cancelVars, retryVars, replyVars, cfgVars,
               sent >>

-----------------------------------------------------------------------------
(* Bounds of the model.                                                    *)

MaxTicks == 2
MaxSignals == 2
MaxMsgs == 2

-----------------------------------------------------------------------------
(* Strings.                                                                *)

LowerAlpha == << "a", "c", "d", "e", "f", "h", "l", "n", "o", "r", "t", "w" >>
UpperAlpha == << "A", "C", "D", "E", "F", "H", "L", "N", "O", "R", "T", "W" >>

ToUpperChar(c) ==
    IF \E i \in DOMAIN LowerAlpha : LowerAlpha[i] = c
    THEN UpperAlpha[CHOOSE i \in DOMAIN LowerAlpha : LowerAlpha[i] = c]
    ELSE c

ToLowerChar(c) ==
    IF \E i \in DOMAIN UpperAlpha : UpperAlpha[i] = c
    THEN LowerAlpha[CHOOSE i \in DOMAIN UpperAlpha : UpperAlpha[i] = c]
    ELSE c

\* strings.ToUpper / strings.ToLower
ToUpper(s) == [i \in DOMAIN s |-> ToUpperChar(s[i])]
ToLower(s) == [i \in DOMAIN s |-> ToLowerChar(s[i])]

\* the characters strings.TrimSpace removes
WhiteSpace == { " ", "\t", "\n", "\r" }

RECURSIVE TrimLeft(_)
TrimLeft(s) ==
    IF s # << >> /\ Head(s) \in WhiteSpace THEN TrimLeft(Tail(s)) ELSE s

RECURSIVE TrimRight(_)
TrimRight(s) ==
    IF s # << >> /\ s[Len(s)] \in WhiteSpace
    THEN TrimRight(SubSeq(s, 1, Len(s) - 1))
    ELSE s

\* strings.TrimSpace
TrimSpace(s) == TrimRight(TrimLeft(s))

-----------------------------------------------------------------------------
(* Error values.  is: what errors.Is matches the value against.            *)

Sid == "12345.1"
Timeout == "10m0s"

ErrNil == [type |-> "nil", text |-> << >>, is |-> "none"]

ErrDeadlineExceeded ==
    [type |-> "DeadlineExceeded", text |-> << "context deadline exceeded" >>,
     is |-> "DeadlineExceeded"]

ErrCanceled ==
    [type |-> "Canceled", text |-> << "context canceled" >>, is |-> "Canceled"]

\* c.client.Do failed
ErrTransport ==
    [type |-> "transport", text |-> << "transport failure" >>, is |-> "none"]

\* c.client.Do gave up after cfg.HTTPTimeout: net/http's timeout error, which
\* errors.Is matches against context.DeadlineExceeded
ErrHTTPTimeout ==
    [type |-> "transport", text |-> << "Client.Timeout exceeded" >>,
     is |-> "DeadlineExceeded"]

\* fmt.Errorf("API request failed with status %s. Response: %s", ...)
ApiError(status, body) ==
    [type |-> "api",
     text |-> << "API request failed with status ", status, ". Response: ", body >>,
     is |-> "none"]

ErrAPI == ApiError("500", "body")

\* handleFailedResponse: nil when the status is the expected one
HandleFailedResponse_AnySuccess(resp, expectedStatus) ==
    IF resp.status \in { "200", "201" } THEN ErrNil
    ELSE ApiError(resp.status, resp.body)

HandleFailedResponse(resp, expectedStatus) ==
    IF resp.status = expectedStatus THEN ErrNil
    ELSE ApiError(resp.status, resp.body)

\* the replies to the job-creation request: an HTTP response, or none at all
StartReplies ==
    [kind : {"http"}, status : { "201", "200", "500" }, body : { "body" }]
        \cup { [kind |-> "transport", status |-> "", body |-> ""] }

\* the error StartSearch returns for a reply, nil when it returns the SID
StartResult(resp) ==
    IF resp.kind = "transport" THEN ErrTransport
    ELSE HandleFailedResponse(resp, "201")

ErrDecode ==
    [type |-> "decode", text |-> << "failed to decode job status JSON" >>,
     is |-> "none"]

ErrNotFound ==
    [type |-> "notfound", text |-> << "job status not found in response" >>,
     is |-> "none"]

ErrTimedOut ==
    [type |-> "timeout", text |-> << "command timed out after ", Timeout >>,
     is |-> "none"]

\* fmt.Errorf("failed to cancel job: %s, %s", resp.Status, string(body))
CancelFailedError(status, body) ==
    [type |-> "cancelfailed",
     text |-> << "failed to cancel job: ", status, ", ", body >>,
     is |-> "none"]

ErrCancelFailed == CancelFailedError("500", "body")

\* the replies to the cancel request: an HTTP response, or none at all
CancelStatuses == { "200", "201", "500" }

CancelBodies == { "body" }

CancelReplies ==
    [kind : {"http"}, status : CancelStatuses, body : CancelBodies]
        \cup { [kind |-> "transport", status |-> "", body |-> ""] }

\* what CancelSearch returns for a reply: nil on 200 only
CancelResult_Any2xx(resp) ==
    IF resp.kind = "transport" THEN ErrTransport
    ELSE IF resp.status \in {"200", "201"} THEN ErrNil
    ELSE CancelFailedError(resp.status, resp.body)

CancelResult(resp) ==
    IF resp.kind = "transport" THEN ErrTransport
    ELSE IF resp.status = "200" THEN ErrNil
    ELSE CancelFailedError(resp.status, resp.body)

\* the request CancelSearch builds
CancelRequest(sid) ==
    [method |-> "POST", path |-> << "search", "jobs", sid, "control" >>,
     body |-> "action=cancel"]

\* The replies on which a JobStatus call fails.  A body is "body" (not
\* JSON), "{}" (JSON without an entry key) or "{\"entry\":[]}".
StatusBodies == { "body", "{}", "{\"entry\":[]}" }

\* json.Unmarshal(bodyBytes, &status): status.Entry of a body that decodes
Entries(body) == IF body \in { "{}", "{\"entry\":[]}" } THEN << >> ELSE << body >>

FailingReplies ==
    { [kind |-> "transport", status |-> "", body |-> ""],
      [kind |-> "timeout", status |-> "", body |-> ""] }
        \cup [kind : {"http"}, status : { "404", "500" }, body : { "body" }]
        \cup [kind : {"http"}, status : { "200" }, body : StatusBodies]

\* the failing replies a whole run is followed through
RunFailingReplies ==
    { r \in FailingReplies : r.status # "404" /\ r.body # "{\"entry\":[]}" }

\* the error JobStatus returns for a failing reply
JobStatusError_UndecodableEntry(reply) ==
    IF reply.kind = "transport" THEN ErrTransport
    ELSE IF reply.kind = "timeout" THEN ErrHTTPTimeout
    ELSE IF HandleFailedResponse(reply, "200") # ErrNil
      THEN HandleFailedResponse(reply, "200")
    ELSE ErrDecode

JobStatusError(reply) ==
    IF reply.kind = "transport" THEN ErrTransport
    ELSE IF reply.kind = "timeout" THEN ErrHTTPTimeout
    ELSE IF HandleFailedResponse(reply, "200") # ErrNil
      THEN HandleFailedResponse(reply, "200")
    ELSE IF reply.body = "body" THEN ErrDecode
    ELSE IF Len(Entries(reply.body)) = 0 THEN ErrNotFound
    ELSE ErrNil

\* the ways one JobStatus call fails
StatusErrors == { JobStatusError(r) : r \in RunFailingReplies }

\* the ways one CancelSearch call ends
CancelOutcomes == { CancelResult(r) : r \in CancelReplies }

\* the ways StartSearch fails
StartErrors == { StartResult(r) : r \in StartReplies } \ { ErrNil }

\* the ways Results fails
ResultsErrors == { ErrTransport, ErrAPI }

-----------------------------------------------------------------------------
(* Status responses.                                                       *)

S_ERROR == << "E", "R", "R", "O", "R" >>
S_error == << "e", "r", "r", "o", "r" >>
S_FATAL == << "F", "A", "T", "A", "L" >>
S_Fatal == << "F", "a", "t", "a", "l" >>
S_WARN == << "W", "A", "R", "N" >>
S_INFO == << "I", "N", "F", "O" >>

MsgTypes == { S_ERROR, S_error, S_Fatal, S_WARN }
MsgTexts == { "t1", "t2" }
Messages == [type : MsgTypes, text : MsgTexts]

DispatchStates == { "DONE", "FAILED", "failed", "" }

SeqsUpTo(S, n) == UNION { [1..k -> S] : k \in 0..n }

\* every status response within the bounds
WaitResponses ==
    [isDone : BOOLEAN, dispatchState : DispatchStates,
     messages : SeqsUpTo(Messages, MaxMsgs)]

\* the responses the lifecycle model draws from
RunMessages ==
    { << >>,
      << [type |-> S_WARN, text |-> "t1"] >>,
      << [type |-> S_error, text |-> "t1"], [type |-> S_INFO, text |-> "t2"] >> }

RunResponses ==
    [isDone : BOOLEAN, dispatchState : { "DONE", "FAILED", "" },
     messages : RunMessages]

NoResp == [isDone |-> FALSE, dispatchState |-> "none", messages |-> << >>]

\* IsErrorMessage without the ToUpper
IsErrorMessage_ExactCase(msg) == msg.type = S_FATAL \/ msg.type = S_ERROR

\* WaitForJob's test of one message
IsErrorMessage(msg) == ToUpper(msg.type) = S_FATAL \/ ToUpper(msg.type) = S_ERROR

\* the bullets WaitForJob writes into errorMessages, one per qualifying message
RECURSIVE ErrorMessages(_)
ErrorMessages(messages) ==
    IF messages = << >> THEN << >>
    ELSE (IF IsErrorMessage(Head(messages))
          THEN << "\n  - ", Head(messages).text >>
          ELSE << >>) \o ErrorMessages(Tail(messages))

\* the error WaitForJob returns for a response with isDone and "FAILED"
JobFailedError(sid, messages) ==
    IF Len(ErrorMessages(messages)) > 0
    THEN [type |-> "jobfailed",
          text |-> << "search job ", sid, " failed with errors:" >>
                   \o ErrorMessages(messages),
          is |-> "none"]
    ELSE [type |-> "jobfailed",
          text |-> << "search job ", sid, " failed" >>,
          is |-> "none"]

\* a response with isDone ends the wait
EndsWait_OnFailedState(resp) == resp.isDone \/ resp.dispatchState = "FAILED"

EndsWait(resp) == resp.isDone

\* IsFailedState comparing without regard to letter case
IsFailedState_AnyCase(jobState) == jobState \in { "FAILED", "failed" }

\* the dispatch state that makes a finished job a failure
IsFailedState(jobState) == jobState = "FAILED"

\* what WaitForJob returns on a response that ends the wait
WaitOutcome(sid, resp) ==
    IF IsFailedState(resp.dispatchState)
    THEN JobFailedError(sid, resp.messages)
    ELSE ErrNil

-----------------------------------------------------------------------------
(* The operator's input.                                                   *)

\* what reader.ReadString('\n') can return: a line through its newline, or
\* what was read before end of input or a read failure
InputLines ==
    { << "d", "\n" >>, << "D", "\n" >>, << " ", "d", "\r", "\n" >>,
      << "c", "\n" >>, << "\n" >>, << >>,
      << "d", "e", "t", "a", "c", "h", "\n" >> }

\* IsDetach without the ToLower
IsDetach_ExactCase(c) == c = << "d" >>

\* IsDetach accepting every word that starts with d
IsDetach_Prefix(c) == c # << >> /\ ToLower(c)[1] = "d"

\* runCmd's test of the operator's choice
IsDetach(c) == ToLower(c) = << "d" >>

-----------------------------------------------------------------------------
(* The inputs of a command and the idle values of what it has not yet      *)
(* sent or received.                                                       *)

\* No job-creation request has been sent.
NoField == << >>

\* No request sent, no reply received.
NoReq == [kind |-> "none"]

\* Results has returned no payload (the empty string of its error returns).
NoPayload == [kind |-> "none"]

\* The query of the run that is followed through its lifecycle.
RunQuery == << "a" >>

\* The queries the start command is given: every string over QueryChars of
\* at most MaxQueryLen characters.
MaxQueryLen == 3

QueryChars == { " ", "\t", "|", "a" }

Queries == UNION { [1..n -> QueryChars] : n \in 0..MaxQueryLen }

\* The values of --limit the run is started with.
RunLimits == {0, 2}

\* The number of results the run's job holds.
RunTotals == {3}

\* form.Set("search", ...) of StartSearch: the query is prefixed with
\* "search " unless, leading white space aside, it begins with a pipe.
HasPrefix(spl, c) == Len(spl) > 0 /\ spl[1] = c

SearchPrefix == << "s", "e", "a", "r", "c", "h", " " >>

SearchField_NoTrim(spl) ==
    IF ~HasPrefix(spl, "|") THEN SearchPrefix \o spl ELSE spl

SearchField(spl) ==
    IF ~HasPrefix(TrimSpace(spl), "|") THEN SearchPrefix \o spl ELSE spl

-----------------------------------------------------------------------------
(* Configuration: the file, the environment, the flags, the prompt; the    *)
(* URL and the Authorization header built from the result.  A value is a   *)
(* sequence of pieces of text, << >> being the empty string.               *)

Empty == << >>

\* The fields every source can set, and those of Config that reach a request.
SourceFields == { "host", "token", "user", "password", "app" }

ConfigFields == SourceFields \cup { "owner" }

\* var cfg Config
ZeroCfg == [k \in ConfigFields |-> Empty]

\* no SPLUNK_* variable set; no flag given
NoEnv == [k \in SourceFields |-> Empty]

NoFlags == [k \in SourceFields |-> [given |-> FALSE, value |-> Empty]]

\* cfg.X = strings.TrimSpace(helper.X)
LoadConfigFromFile(file) == [k \in ConfigFields |-> TrimSpace(file[k])]

\* if v := os.Getenv("SPLUNK_X"); v != "" { cfg.X = v }
ProcessEnvVars(c, env) ==
    [k \in ConfigFields |->
        IF k \in SourceFields /\ env[k] # Empty THEN env[k] ELSE c[k]]

\* fs.StringVar(&cfg.X, "x", cfg.X, ...); fs.Parse(args)
ParseFlags_Fallback(c, flags) ==
    [k \in ConfigFields |->
        IF k \in SourceFields /\ flags[k].given /\ c[k] = Empty
          THEN flags[k].value ELSE c[k]]

ParseFlags(c, flags) ==
    [k \in ConfigFields |->
        IF k \in SourceFields /\ flags[k].given THEN flags[k].value ELSE c[k]]

\* promptForCredentials: nothing is asked when a token or a user with a
\* password is there; else the token is asked when there is no user, and
\* the password when there is a user.  What is typed is stored as it is.
CredentialsPresent(c) ==
    c.token # Empty \/ (c.user # Empty /\ c.password # Empty)

PromptForCredentials(c, typed) ==
    IF CredentialsPresent(c) THEN c
    ELSE IF c.user = Empty THEN [c EXCEPT !.token = typed]
    ELSE [c EXCEPT !.password = typed]

\* setupAuth
AuthHeader_BasicFirst(c) ==
    IF c.user # Empty /\ c.password # Empty
      THEN [scheme |-> "Basic", user |-> c.user, secret |-> c.password]
    ELSE IF c.token # Empty
      THEN [scheme |-> "Bearer", user |-> Empty, secret |-> c.token]
    ELSE [scheme |-> "none", user |-> Empty, secret |-> Empty]

AuthHeader(c) ==
    IF c.token # Empty
      THEN [scheme |-> "Bearer", user |-> Empty, secret |-> c.token]
    ELSE IF c.user # Empty /\ c.password # Empty
      THEN [scheme |-> "Basic", user |-> c.user, secret |-> c.password]
    ELSE [scheme |-> "none", user |-> Empty, secret |-> Empty]

\* createAPIURL: the host, then the segments JoinPath appends to it
APIURL_OwnerAsIs(c, pathSegments) ==
    IF c.app # Empty
      THEN << c.host, << "servicesNS" >>, c.owner, c.app >> \o pathSegments
      ELSE << c.host, << "services" >> >> \o pathSegments

APIURL(c, pathSegments) ==
    IF c.app # Empty
      THEN << c.host, << "servicesNS" >>,
              IF c.owner = Empty THEN << "nobody" >> ELSE c.owner,
              c.app >> \o pathSegments
      ELSE << c.host, << "services" >> >> \o pathSegments

\* doRequest: the request as it leaves, with the header setupAuth gave it
Request(c, method, pathSegments) ==
    [method |-> method, url |-> APIURL(c, pathSegments), auth |-> AuthHeader(c)]

\* the path segments of the four endpoints
JobsPath == << << "search" >>, << "jobs" >> >>

JobPath(sid) == JobsPath \o << << sid >> >>

\* The configuration of the commands followed from their first request on.
RunCfg ==
    [host |-> << "https://h" >>, token |-> << "tok" >>, user |-> Empty,
     password |-> Empty, app |-> Empty, owner |-> Empty]

Configured ==
    /\ fileCfg = RunCfg
    /\ envCfg = NoEnv
    /\ flagCfg = NoFlags
    /\ entry = Empty
    /\ cfg = RunCfg

-----------------------------------------------------------------------------
(* State after process start, before runCmd's first request.               *)

NoRet == [type |-> "none", text |-> << >>, is |-> "none"]

\* Nothing has been sent, fetched, cancelled or retried.
NothingFetched ==
    /\ pcFetch = "idle"
    /\ fetchCount = 0
    /\ offset = 0
    /\ allResults = << >>
    /\ pageReqs = << >>
    /\ payload = NoPayload
    /\ fetchErr = ErrNil
    /\ inexact = FALSE
    /\ failedAt = 0
    /\ served = << >>
    /\ cancelReq = NoReq
    /\ cancelResp = NoReq
    /\ pollFailures = 0
    /\ statusAfterFail = 0
    /\ statusReply = NoReq
    /\ cmdStatus = NoResp

\* The process before the command function is entered.
ProcessIdle ==
    /\ ret = NoRet
    /\ stdout = 0
    /\ prompted = FALSE
    /\ acted = "none"
    /\ pcPoll = "idle"
    /\ errChan = << >>
    /\ tickReady = FALSE
    /\ ticks = 0
    /\ ctxState = "none"
    /\ lastResp = NoResp
    /\ sigChan = 0
    /\ sigNotify = FALSE
    /\ secondSigChan = 0
    /\ secondNotify = FALSE
    /\ signals = 0
    /\ killed = FALSE
    /\ pcChoice = "none"
    /\ line = << >>
    /\ choice = << >>
    /\ submitReqs = 0
    /\ statusReqs = 0
    /\ resultsReqs = 0
    /\ cancelReqs = 0
    /\ firstEvent = "none"
    /\ lateSignals = 0
    /\ promptPolls = 0
    /\ lateDeadlinePoll = FALSE
    /\ deadlineIdle = FALSE
    /\ lateInterrupt = FALSE

Init ==
    /\ ProcessIdle
    /\ pcMain = "start"
    /\ startResp = NoReq
    /\ sent = { }
    /\ NothingFetched
    /\ Configured
    /\ query = RunQuery
    /\ searchField = NoField
    /\ limit \in RunLimits
    /\ total \in RunTotals

-----------------------------------------------------------------------------
(* runCmd.                                                                 *)

\* runCmd returns e: its deferred calls run (cancel, signal.Stop(secondSigChan))
Return(e) ==
    /\ pcMain' = "returned"
    /\ ret' = e
    /\ ctxState' = IF ctxState = "live" THEN "Canceled" ELSE ctxState
    /\ secondNotify' = FALSE

\* client.StartSearch and the check of its error
StartSearch ==
    /\ ~killed
    /\ pcMain = "start"
    /\ submitReqs' = submitReqs + 1
    /\ searchField' = SearchField(query)
    /\ sent' = sent \cup { Request(cfg, "POST", JobsPath) }
    /\ \E resp \in StartReplies :
          /\ startResp' = resp
          /\ IF StartResult(resp) = ErrNil
                THEN /\ pcMain' = "submitted"
                     /\ UNCHANGED << ret, ctxState, secondNotify >>
                ELSE Return(StartResult(resp))
    /\ UNCHANGED << statusReply, cmdStatus, cfgVars, query, fetchVars, cancelVars, retryVars, stdout,
                    prompted, acted, pollVars, tickReady, ticks, sigChan,
                    sigNotify, secondSigChan, signals, killed, choiceVars,
                    statusReqs, resultsReqs, cancelReqs, ghostVars >>

\* context.WithTimeout, signal.Notify(sigChan), go WaitForJob
Arm ==
    /\ ~killed
    /\ pcMain = "submitted"
    /\ pcMain' = "select"
    /\ ctxState' = "live"
    /\ sigNotify' = TRUE
    /\ pcPoll' = "wait"
    /\ UNCHANGED << extraVars, ret, stdout, prompted, acted, errChan, lastResp, tickReady,
                    ticks, sigChan, secondSigChan, secondNotify, signals, killed,
                    choiceVars, reqVars, ghostVars >>

\* what runCmd does with the value received from errChan
AfterWait_NoTimeoutCheck(err) ==
    IF err # ErrNil /\ err.is # "Canceled" /\ err.is # "DeadlineExceeded"
    THEN Return(err)
    ELSE /\ pcMain' = "fetch"
         /\ UNCHANGED << ret, ctxState, secondNotify >>

AfterWait_CancelOnTimeout(err) ==
    IF err # ErrNil /\ err.is # "Canceled" /\ err.is # "DeadlineExceeded"
    THEN Return(err)
    ELSE /\ pcMain' = (IF err.is = "DeadlineExceeded" THEN "cancel" ELSE "fetch")
         /\ UNCHANGED << ret, ctxState, secondNotify >>

AfterWait(err) ==
    IF err # ErrNil /\ err.is # "Canceled" /\ err.is # "DeadlineExceeded"
    THEN Return(err)
    ELSE IF err.is = "DeadlineExceeded"
         THEN Return(ErrTimedOut)
         ELSE /\ pcMain' = "fetch"
              /\ UNCHANGED << ret, ctxState, secondNotify >>

\* outer select, case err := <-errChan
RecvErr ==
    /\ ~killed
    /\ pcMain = "select"
    /\ errChan # << >>
    /\ errChan' = Tail(errChan)
    /\ acted' = IF Head(errChan) = ErrDeadlineExceeded THEN "deadline" ELSE "poll"
    /\ AfterWait(Head(errChan))
    /\ UNCHANGED << extraVars, stdout, prompted, pcPoll, lastResp, tickReady, ticks, sigChan,
                    sigNotify, secondSigChan, signals, killed, choiceVars,
                    reqVars, ghostVars >>

\* runCmd can take `case <-sigChan`: it reads sigChan in its outer select
\* only, never once it has left it
SigChanCase_WhileFetching == pcMain \in { "select", "fetch" } /\ sigChan > 0

SigChanCase == pcMain = "select" /\ sigChan > 0

\* outer select, case <-sigChan: signal.Stop(sigChan), the prompt, go getChoiceFromTTY
TakeSignal ==
    /\ ~killed
    /\ SigChanCase
    /\ sigChan' = sigChan - 1
    /\ sigNotify' = FALSE
    /\ prompted' = TRUE
    /\ acted' = "interrupt"
    /\ pcChoice' = "read"
    /\ pcMain' = "arming"
    /\ UNCHANGED << extraVars, ret, stdout, pollVars, timeVars, secondSigChan, secondNotify,
                    signals, killed, line, choice, reqVars, ghostVars >>

\* signal.Notify(secondSigChan) and its deferred Stop
ArmSecond ==
    /\ ~killed
    /\ pcMain = "arming"
    /\ secondNotify' = TRUE
    /\ pcMain' = "choose"
    /\ UNCHANGED << extraVars, ret, stdout, prompted, acted, pollVars, timeVars, sigChan,
                    sigNotify, secondSigChan, signals, killed, choiceVars,
                    reqVars, ghostVars >>

\* AfterChoice without the return in front of client.CancelSearch: control
\* leaves the select and reaches the fetch
AfterChoice_FallThrough(c) ==
    IF ToLower(c) = << "d" >>
    THEN Return(ErrNil)
    ELSE /\ pcMain' = "fetch"
         /\ UNCHANGED << ret, ctxState, secondNotify >>

\* what runCmd does with the operator's choice
AfterChoice(c) ==
    IF IsDetach(c)
    THEN Return(ErrNil)
    ELSE /\ pcMain' = "cancel"
         /\ UNCHANGED << ret, ctxState, secondNotify >>

\* inner select, case choice := <-choiceChan (a rendezvous with the sender)
RecvChoice ==
    /\ ~killed
    /\ pcMain = "choose"
    /\ pcChoice = "send"
    /\ pcChoice' = "done"
    /\ AfterChoice(choice)
    /\ UNCHANGED << extraVars, stdout, prompted, acted, pollVars, tickReady, ticks, sigChan,
                    sigNotify, secondSigChan, signals, killed, line, choice,
                    reqVars, ghostVars >>

\* inner select, case <-secondSigChan
RecvSecondSig ==
    /\ ~killed
    /\ pcMain = "choose"
    /\ secondSigChan > 0
    /\ secondSigChan' = secondSigChan - 1
    /\ pcMain' = "cancel"
    /\ UNCHANGED << extraVars, ret, stdout, prompted, acted, pollVars, timeVars, sigChan,
                    sigNotify, secondNotify, signals, killed, choiceVars,
                    reqVars, ghostVars >>

\* `return client.CancelSearch(sid)`: the cancel's result is run's result
AfterCancel_FetchOnSuccess(err) ==
    IF err = ErrNil
    THEN /\ pcMain' = "fetch"
         /\ UNCHANGED << ret, ctxState, secondNotify >>
    ELSE Return(err)

AfterCancel(err) == Return(err)

\* return client.CancelSearch(sid)
CancelSearch ==
    /\ ~killed
    /\ pcMain = "cancel"
    /\ sent' = sent \cup { Request(cfg, "POST", JobPath(Sid) \o << << "control" >> >>) }
    /\ cancelReqs' = cancelReqs + 1
    /\ cancelReq' = CancelRequest(Sid)
    /\ \E resp \in CancelReplies :
           /\ cancelResp' = resp
           /\ AfterCancel(CancelResult(resp))
    /\ UNCHANGED << replyVars, cfgVars, startVars, fetchVars, retryVars, stdout, prompted, acted, pollVars, tickReady, ticks, sigChan,
                    sigNotify, secondSigChan, signals, killed, choiceVars,
                    submitReqs, statusReqs, resultsReqs, ghostVars >>

\* The request of Client.Results(sid), the fetch runCmd calls: output_mode
\* is its only parameter; it names no offset and no count.
RunResultsRequest ==
    [method |-> "GET", path |-> << "search", "jobs", Sid, "results" >>,
     output_mode |-> "json"]

\* json.Indent of the reply's body, which holds the job's n records: the
\* request names no range, and the job's results are fewer than the count
\* the server sends by default
IndentBody(n) ==
    [kind |-> "json", key |-> "results",
     records |-> IF n = 0 THEN << >> ELSE << [from |-> 0, n |-> n] >>,
     null |-> FALSE]

\* runCmd after client.Results: `if err != nil { return err }`, then
\* fmt.Println(results): the number of payloads written to stdout
Printed_Always(err) == 1

Printed(err) == IF err = ErrNil THEN 1 ELSE 0

\* client.Results(sid), fmt.Println(results)
Results ==
    /\ ~killed
    /\ pcMain = "fetch"
    /\ sent' = sent \cup { Request(cfg, "GET", JobPath(Sid) \o << << "results" >> >>) }
    /\ resultsReqs' = resultsReqs + 1
    /\ pageReqs' = Append(pageReqs, RunResultsRequest)
    /\ \/ /\ payload' = IndentBody(total)
          /\ inexact' = FALSE
          /\ stdout' = stdout + Printed(ErrNil)
          /\ Return(ErrNil)
          /\ UNCHANGED fetchErr
       \/ /\ \E e \in ResultsErrors :
                /\ fetchErr' = e
                /\ stdout' = stdout + Printed(e)
                /\ Return(e)
          /\ UNCHANGED << payload, inexact >>
    /\ UNCHANGED << replyVars, cfgVars, startVars, limit, total, pcFetch, fetchCount, offset,
                    allResults, failedAt, served, cancelVars, retryVars,
                    prompted, acted, pollVars, tickReady, ticks, sigChan,
                    sigNotify, secondSigChan, signals, killed, choiceVars,
                    submitReqs, statusReqs, cancelReqs, ghostVars >>

MainStep ==
    \/ StartSearch
    \/ Arm
    \/ RecvErr
    \/ TakeSignal
    \/ ArmSecond
    \/ RecvChoice
    \/ RecvSecondSig
    \/ CancelSearch
    \/ Results

-----------------------------------------------------------------------------
(* Client.WaitForJob, run by the goroutine that sends its result to        *)
(* errChan.                                                                *)

\* ctx.Err() once ctx.Done() is closed
CtxErr == IF ctxState = "DeadlineExceeded" THEN ErrDeadlineExceeded ELSE ErrCanceled

\* a WaitForJob whose select has no `case <-ctx.Done()`
CtxDone_Unwatched == FALSE

CtxDone == ctxState \in { "DeadlineExceeded", "Canceled" }

\* select, case <-ctx.Done(): return ctx.Err()
PollCtxDone ==
    /\ ~killed
    /\ pcPoll = "wait"
    /\ CtxDone
    /\ pcPoll' = "done"
    /\ errChan' = Append(errChan, CtxErr)
    /\ UNCHANGED << extraVars, mainVars, lastResp, timeVars, sigVars, choiceVars, reqVars,
                    ghostVars >>

\* WaitForJob can take `case <-ticker.C`: it is at its select, not inside
\* JobStatus, and the ticker, which does not fire when it is created, has
\* delivered a tick
TickerCase_FiresAtOnce == pcPoll = "wait" /\ (tickReady \/ statusReqs = 0)

TickerCase == pcPoll = "wait" /\ tickReady

\* select, case <-ticker.C: the JobStatus request goes out
PollTick ==
    /\ ~killed
    /\ TickerCase
    /\ tickReady' = FALSE
    /\ pcPoll' = "request"
    /\ sent' = sent \cup { Request(cfg, "GET", JobPath(Sid)) }
    /\ statusReqs' = statusReqs + 1
    /\ promptPolls' =
         IF prompted /\ pcMain # "returned" THEN promptPolls + 1 ELSE promptPolls
    /\ lateDeadlinePoll' = (lateDeadlinePoll \/ ctxState = "DeadlineExceeded")
    /\ statusAfterFail' =
         IF pollFailures > 0 THEN statusAfterFail + 1 ELSE statusAfterFail
    /\ UNCHANGED << replyVars, cfgVars, startVars, fetchVars, cancelVars, pollFailures, mainVars, errChan, lastResp, ticks, ctxState, sigVars,
                    choiceVars, submitReqs, resultsReqs, cancelReqs, firstEvent,
                    lateSignals, deadlineIdle, lateInterrupt >>

\* JobStatus fails: WaitForJob returns the error, it does not go back to its
\* select
PollAfterError_Retry == "wait"

PollAfterError == "done"

PollError(Replies) ==
    /\ ~killed
    /\ pcPoll = "request"
    /\ pollFailures' = pollFailures + 1
    /\ \E reply \in Replies :
          /\ statusReply' = reply
          /\ IF PollAfterError = "done"
                THEN errChan' = Append(errChan, JobStatusError(reply))
                ELSE UNCHANGED errChan
    /\ pcPoll' = PollAfterError
    /\ lastResp' = NoResp
    /\ firstEvent' = IF firstEvent = "none" THEN "poll" ELSE firstEvent
    /\ UNCHANGED << startResp, cmdStatus, cfgVars, sent, startVars, fetchVars, cancelVars, statusAfterFail, mainVars,
                    timeVars, sigVars, choiceVars, reqVars, lateSignals,
                    promptPolls, lateDeadlinePoll, deadlineIdle, lateInterrupt >>

\* JobStatus returns a status: WaitForJob returns or goes back to its select
PollResponse(Resps) ==
    /\ ~killed
    /\ pcPoll = "request"
    /\ \E resp \in Resps :
         IF EndsWait(resp)
         THEN /\ lastResp' = resp
              /\ errChan' = Append(errChan, WaitOutcome(Sid, resp))
              /\ pcPoll' = "done"
              /\ firstEvent' = IF firstEvent = "none" THEN "poll" ELSE firstEvent
         ELSE /\ lastResp' = NoResp
              /\ pcPoll' = "wait"
              /\ UNCHANGED << errChan, firstEvent >>
    /\ UNCHANGED << extraVars, mainVars, timeVars, sigVars, choiceVars, reqVars, lateSignals,
                    promptPolls, lateDeadlinePoll, deadlineIdle, lateInterrupt >>

-----------------------------------------------------------------------------
(* getChoiceFromTTY, run by the goroutine that sends its result to         *)
(* choiceChan.                                                             *)

\* reader.ReadString returns; the goroutine goes on to its send on choiceChan
ReadChoice ==
    /\ ~killed
    /\ pcChoice = "read"
    /\ \E l \in InputLines :
         /\ line' = l
         /\ choice' = TrimSpace(l)
    /\ pcChoice' = "send"
    /\ UNCHANGED << extraVars, mainVars, pollVars, timeVars, sigVars, reqVars, ghostVars >>

-----------------------------------------------------------------------------
(* The environment: the ticker, the context's timer, the signals.          *)

\* time.NewTicker(2 * time.Second) delivers a tick
Tick ==
    /\ ~killed
    /\ pcPoll \in { "wait", "request" }
    /\ ~tickReady
    /\ ticks < MaxTicks
    /\ tickReady' = TRUE
    /\ ticks' = ticks + 1
    /\ UNCHANGED << extraVars, mainVars, pollVars, ctxState, sigVars, choiceVars, reqVars,
                    ghostVars >>

\* the timer of context.WithTimeout fires
Deadline ==
    /\ ~killed
    /\ ctxState = "live"
    /\ ctxState' = "DeadlineExceeded"
    /\ firstEvent' = IF firstEvent = "none" THEN "deadline" ELSE firstEvent
    /\ deadlineIdle' = (pcPoll = "wait" /\ acted = "none")
    /\ UNCHANGED << extraVars, mainVars, pollVars, tickReady, ticks, sigVars, choiceVars,
                    reqVars, lateSignals, promptPolls, lateDeadlinePoll,
                    lateInterrupt >>

\* a non-blocking send of the signal to a channel of capacity cap
Relay(n, cap, registered) == IF registered /\ n < cap THEN n + 1 ELSE n

SigChanCap == 2
SecondSigChanCap == 1

\* SIGINT or SIGTERM arrives: relayed to the registered channels, or, with none
\* registered, the default disposition ends the process
DeliverSignal ==
    /\ ~killed
    /\ pcMain # "returned"
    /\ signals < MaxSignals
    /\ signals' = signals + 1
    /\ IF sigNotify \/ secondNotify
       THEN /\ sigChan' = Relay(sigChan, SigChanCap, sigNotify)
            /\ secondSigChan' = Relay(secondSigChan, SecondSigChanCap, secondNotify)
            /\ UNCHANGED killed
       ELSE /\ killed' = TRUE
            /\ UNCHANGED << sigChan, secondSigChan >>
    /\ firstEvent' =
         IF firstEvent = "none" /\ sigNotify THEN "interrupt" ELSE firstEvent
    /\ lateSignals' =
         IF (sigChan > 0 \/ acted = "interrupt") /\ acted \in { "none", "interrupt" }
            /\ pcChoice \in { "none", "read" }
         THEN lateSignals + 1
         ELSE lateSignals
    /\ lateInterrupt' = (lateInterrupt \/ acted \in { "poll", "deadline" })
    /\ UNCHANGED << extraVars, mainVars, pollVars, timeVars, sigNotify, secondNotify,
                    choiceVars, reqVars, promptPolls, lateDeadlinePoll,
                    deadlineIdle >>

-----------------------------------------------------------------------------

Next ==
    \/ MainStep
    \/ PollCtxDone
    \/ PollTick
    \/ PollError(RunFailingReplies)
    \/ PollResponse(RunResponses)
    \/ ReadChoice
    \/ Tick
    \/ Deadline
    \/ DeliverSignal

Spec == Init /\ [][Next]_vars

-----------------------------------------------------------------------------
(* run with no signal delivered: the process and the WaitForJob goroutine  *)
(* keep taking their steps, every request is answered, and the timer of    *)
(* the context, whose timeout is finite, fires unless run has returned.    *)
(* A select that finds ctx.Done() ready again and again eventually takes   *)
(* it, since it chooses at random among its ready cases.  The ticker is    *)
(* not required to tick.                                                   *)

RunStep ==
    \/ StartSearch
    \/ Arm
    \/ RecvErr
    \/ Results

NextQuiet ==
    \/ RunStep
    \/ PollCtxDone
    \/ PollTick
    \/ PollError(RunFailingReplies)
    \/ PollResponse(RunResponses)
    \/ Tick
    \/ Deadline

Fairness ==
    /\ WF_vars(RunStep)
    /\ SF_vars(PollCtxDone)
    /\ WF_vars(PollTick)
    /\ WF_vars(PollError(RunFailingReplies) \/ PollResponse(RunResponses))
    /\ WF_vars(Deadline)

SpecQuiet == Init /\ [][NextQuiet]_vars /\ Fairness

-----------------------------------------------------------------------------
(* startCmd: submit the job, print its SID, return.                        *)

\* fmt.Println(sid); return nil
PrintSid ==
    /\ pcMain = "submitted"
    /\ stdout' = stdout + 1
    /\ Return(ErrNil)
    /\ UNCHANGED << extraVars, prompted, acted, pollVars, tickReady, ticks, sigChan,
                    sigNotify, secondSigChan, signals, killed,
                    choiceVars, reqVars, ghostVars >>

InitStart ==
    /\ ProcessIdle
    /\ pcMain = "start"
    /\ startResp = NoReq
    /\ sent = { }
    /\ NothingFetched
    /\ Configured
    /\ query \in Queries
    /\ searchField = NoField
    /\ limit = 0
    /\ total = 0

NextStart == StartSearch \/ PrintSid

SpecStart == InitStart /\ [][NextStart]_vars

-----------------------------------------------------------------------------
(* Client.Results(sid, limit), the paginated fetch, and resultsCmd, the    *)
(* command that calls it.  A record of the job is its index in server      *)
(* order, from 0; a run [from, n] stands for the n records from, ...,      *)
(* from + n - 1, and a sequence of runs for their concatenation.           *)

\* const maxCount = 50000
maxCount == 50000

\* The values of --limit and the sizes of the job's result set.
Limits == { -1, 0, 1, 2, 3, 50000, 60000, 100001, 120000, 130000 }

Totals == { 0, 1, 3, 50000, 50001, 100000, 120000 }

\* fetchCount := limit; if limit == 0 || (limit > 0 && limit > totalResults)
\* { fetchCount = totalResults }
FetchCount_NoZeroCase(lim, tot) ==
    IF lim > 0 /\ lim > tot THEN tot ELSE lim

FetchCount_IgnoreLimit(lim, tot) == tot

FetchCount(lim, tot) ==
    IF lim = 0 \/ (lim > 0 /\ lim > tot) THEN tot ELSE lim

\* count := maxCount; if offset+count > fetchCount { count = fetchCount - offset }
PageCount_NoClip(off, fc) == maxCount

PageCount(off, fc) ==
    IF off + maxCount > fc THEN fc - off ELSE maxCount

\* the query parameters of one page request
PageRequest(off, cnt) ==
    [method |-> "GET", path |-> << "search", "jobs", Sid, "results" >>,
     output_mode |-> "json", offset |-> off, count |-> cnt]

\* the records the job holds in [off, off + cnt)
Available(off, cnt) ==
    IF off >= total THEN 0
    ELSE IF off + cnt > total THEN total - off ELSE cnt

\* the numbers of records a reply to a page request may hold: the range
\* asked for, or one record fewer or more
ServedCounts(off, cnt) ==
    { n \in { Available(off, cnt) - 1, Available(off, cnt),
              Available(off, cnt) + 1 } : n >= 0 }

RECURSIVE RecordCount(_)
RecordCount(runs) ==
    IF runs = << >> THEN 0 ELSE Head(runs).n + RecordCount(Tail(runs))

\* the runs, concatenated, are the records lo, ..., hi - 1 in that order
RECURSIVE IsRange(_, _, _)
IsRange(runs, lo, hi) ==
    IF runs = << >> THEN lo = hi
    ELSE Head(runs).from = lo /\ IsRange(Tail(runs), lo + Head(runs).n, hi)

\* allResults = append(allResults, page.Results...)
AppendPage_Front(all, off, n) ==
    IF n = 0 THEN all ELSE << [from |-> off, n |-> n] >> \o all

AppendPage(all, off, n) ==
    IF n = 0 THEN all ELSE Append(all, [from |-> off, n |-> n])

\* json.MarshalIndent(map{"results": allResults}): a nil slice, which is
\* what allResults is when no record was appended, is written as null
MarshalResults(all) ==
    [kind |-> "json", key |-> "results", records |-> all,
     null |-> (all = << >>)]

\* "could not get job status before fetching results: %w"
ErrStatusBeforeFetch(e) ==
    [type |-> e.type,
     text |-> << "could not get job status before fetching results: " >> \o e.text,
     is |-> e.is]

\* "failed to decode results page: %w"
ErrPageDecode ==
    [type |-> "decode", text |-> << "failed to decode results page: ", "EOF" >>,
     is |-> "none"]

\* the ways one page request fails
PageErrors == { ErrTransport, ErrAPI, ErrPageDecode }

\* "job %s is not complete yet (state: %s)"
ErrNotComplete(sid, state) ==
    [type |-> "notcomplete",
     text |-> << "job ", sid, " is not complete yet (state: ", state, ")" >>,
     is |-> "none"]

\* "cannot get results, job %s failed"
ErrCannotGetResults(sid) ==
    [type |-> "jobfailed",
     text |-> << "cannot get results, job ", sid, " failed" >>,
     is |-> "none"]

\* resultsCmd's checks of what JobStatus reported: the error it returns,
\* or nil when the results may be fetched
ResultsCmdCheck_NoDoneTest(sid, resp) ==
    IF resp.dispatchState = "FAILED" THEN ErrCannotGetResults(sid) ELSE ErrNil

ResultsCmdCheck(sid, resp) ==
    IF ~resp.isDone THEN ErrNotComplete(sid, resp.dispatchState)
    ELSE IF resp.dispatchState = "FAILED" THEN ErrCannotGetResults(sid)
    ELSE ErrNil

\* resultsCmd: client.JobStatus and the checks of what it reports
ResultsCmdStatus ==
    /\ pcMain = "start"
    /\ sent' = sent \cup { Request(cfg, "GET", JobPath(Sid)) }
    /\ statusReqs' = statusReqs + 1
    /\ \/ /\ \E e \in StatusErrors : Return(e)
          /\ UNCHANGED << pcFetch, cmdStatus >>
       \/ \E resp \in RunResponses :
             /\ cmdStatus' = resp
             /\ IF ResultsCmdCheck(Sid, resp) # ErrNil
                  THEN /\ Return(ResultsCmdCheck(Sid, resp))
                       /\ UNCHANGED pcFetch
                  ELSE /\ pcMain' = "fetch"
                       /\ pcFetch' = "status"
                       /\ UNCHANGED << ret, ctxState, secondNotify >>
    /\ UNCHANGED << startResp, statusReply, cfgVars, startVars, limit, total,
                    fetchCount, offset, allResults,
                    pageReqs, payload, fetchErr, inexact, failedAt, served, cancelVars,
                    retryVars, stdout, prompted, acted, pollVars, tickReady,
                    ticks, sigChan, sigNotify, secondSigChan, signals, killed,
                    choiceVars, submitReqs, resultsReqs, cancelReqs, ghostVars >>

\* Results, steps 1 and 2: c.JobStatus(sid), fetchCount
ResultsStatus ==
    /\ pcFetch = "status"
    /\ sent' = sent \cup { Request(cfg, "GET", JobPath(Sid)) }
    /\ statusReqs' = statusReqs + 1
    /\ \/ \E e \in StatusErrors :
             /\ fetchErr' = ErrStatusBeforeFetch(e)
             /\ pcFetch' = "failed"
             /\ UNCHANGED << fetchCount, offset >>
       \/ /\ fetchCount' = FetchCount(limit, total)
          /\ offset' = 0
          /\ pcFetch' = "loop"
          /\ UNCHANGED fetchErr
    /\ UNCHANGED << replyVars, cfgVars, startVars, limit, total, allResults, pageReqs, payload,
                    inexact, failedAt, served, cancelVars, retryVars, mainVars,
                    pollVars, timeVars, sigVars, choiceVars, submitReqs,
                    resultsReqs, cancelReqs, ghostVars >>

\* Results, step 3: the test of `for offset := 0; offset < fetchCount`
LoopContinues_AtLeastOnce(off, fc) == off < fc \/ off = 0

LoopContinues(off, fc) == off < fc

\* Results, step 3: the loop's test, count, and the request of one page
ResultsPageRequest ==
    /\ pcFetch = "loop"
    /\ LoopContinues(offset, fetchCount)
    /\ pageReqs' = Append(pageReqs, PageRequest(offset, PageCount(offset, fetchCount)))
    /\ sent' = sent \cup { Request(cfg, "GET", JobPath(Sid) \o << << "results" >> >>) }
    /\ resultsReqs' = resultsReqs + 1
    /\ pcFetch' = "page"
    /\ UNCHANGED << replyVars, cfgVars, startVars, limit, total, fetchCount, offset, allResults,
                    payload, fetchErr, inexact, failedAt, served, cancelVars, retryVars,
                    mainVars, pollVars, timeVars, sigVars, choiceVars,
                    submitReqs, statusReqs, cancelReqs, ghostVars >>

\* a page request failed (transport, status other than 200, undecodable
\* body): Results returns "", err
PageFailure_SkipPage(e) ==
    /\ pcFetch' = "loop"
    /\ offset' = offset + maxCount
    /\ UNCHANGED fetchErr

PageFailure(e) ==
    /\ pcFetch' = "failed"
    /\ fetchErr' = e
    /\ UNCHANGED offset

\* Results, step 3: the reply to the page request
ResultsPageReply ==
    /\ pcFetch = "page"
    /\ LET req == pageReqs[Len(pageReqs)] IN
         \/ /\ \E e \in PageErrors : PageFailure(e)
            /\ failedAt' = Len(pageReqs)
            /\ UNCHANGED << allResults, inexact, served >>
         \/ /\ \E n \in ServedCounts(req.offset, req.count) :
                  /\ allResults' = AppendPage(allResults, req.offset, n)
                  /\ served' = Append(served, n)
                  /\ inexact' = (inexact \/ n # req.count)
            /\ offset' = offset + maxCount
            /\ pcFetch' = "loop"
            /\ UNCHANGED << fetchErr, failedAt >>
    /\ UNCHANGED << replyVars, cfgVars, sent, startVars, limit, total, fetchCount, pageReqs, payload,
                    cancelVars, retryVars, mainVars, pollVars, timeVars,
                    sigVars, choiceVars, reqVars, ghostVars >>

\* Results, step 4: the loop has ended; marshal and return
ResultsReturn ==
    /\ pcFetch = "loop"
    /\ ~LoopContinues(offset, fetchCount)
    /\ payload' = MarshalResults(allResults)
    /\ pcFetch' = "returned"
    /\ UNCHANGED << replyVars, cfgVars, sent, startVars, limit, total, fetchCount, offset, allResults,
                    pageReqs, fetchErr, inexact, failedAt, served, cancelVars,
                    retryVars, mainVars, pollVars, timeVars, sigVars,
                    choiceVars, reqVars, ghostVars >>

\* resultsCmd: the check of Results' error, fmt.Println(results)
ResultsCmdFetched ==
    /\ pcMain = "fetch"
    /\ pcFetch \in { "returned", "failed" }
    /\ IF pcFetch = "failed"
         THEN /\ Return(fetchErr)
              /\ UNCHANGED stdout
         ELSE /\ stdout' = stdout + 1
              /\ Return(ErrNil)
    /\ UNCHANGED << extraVars, prompted, acted, pollVars, tickReady, ticks,
                    sigChan, sigNotify, secondSigChan, signals, killed,
                    choiceVars, reqVars, ghostVars >>

InitResults ==
    /\ ProcessIdle
    /\ pcMain = "start"
    /\ startResp = NoReq
    /\ sent = { }
    /\ NothingFetched
    /\ Configured
    /\ query = << >>
    /\ searchField = NoField
    /\ limit \in Limits
    /\ total \in Totals

NextResults ==
    \/ ResultsCmdStatus
    \/ ResultsStatus
    \/ ResultsPageRequest
    \/ ResultsPageReply
    \/ ResultsReturn
    \/ ResultsCmdFetched

SpecResults == InitResults /\ [][NextResults]_vars

-----------------------------------------------------------------------------
(* Execute and the start of resultsCmd: the configuration is resolved from *)
(* the file, the environment and the flags, the host is checked and the    *)
(* credentials are asked for; then resultsCmd goes on as above.            *)

\* term.ReadPassword failed
ReadFailed == << "<read failed>" >>

\* what the credential prompt's read gives
PromptEntries == { Empty, << "typed" >>, ReadFailed }

\* errors.New("--host is required")
ErrHostRequired ==
    [type |-> "usage", text |-> << "--host is required" >>, is |-> "none"]

\* "could not read token: %w" / "could not read password: %w"
ErrPromptRead ==
    [type |-> "prompt", text |-> << "could not read token or password" >>,
     is |-> "none"]

\* The values a source may hold for a field.
FileValues == { Empty, << " ", "f" >> }

EnvValues == { Empty, << "e" >> }

FlagValues ==
    { [given |-> FALSE, value |-> Empty], [given |-> TRUE, value |-> Empty],
      [given |-> TRUE, value |-> << "g" >>] }

\* A configuration file that names the host only.
HostOnlyFile == [ZeroCfg EXCEPT !.host = << "https://h" >>]

\* The sources considered: every combination of the three sources of one
\* field, the others left as in HostOnlyFile; and every combination of
\* token, user, password, app and owner set in the file or not.
Sources ==
    { [file |-> [HostOnlyFile EXCEPT ![k] = f], env |-> [NoEnv EXCEPT ![k] = e],
       flags |-> [NoFlags EXCEPT ![k] = g]] :
         k \in SourceFields, f \in FileValues, e \in EnvValues, g \in FlagValues }
    \cup
    { [file |-> [host |-> << "https://h" >>, token |-> t, user |-> u,
                 password |-> pw, app |-> a, owner |-> o],
       env |-> NoEnv, flags |-> NoFlags] :
         t \in FileValues, u \in FileValues, pw \in FileValues,
         a \in FileValues, o \in FileValues }

\* Execute: LoadConfigFromFile, ProcessEnvVars
Execute ==
    /\ pcMain = "boot"
    /\ cfg' = ProcessEnvVars(LoadConfigFromFile(fileCfg), envCfg)
    /\ pcMain' = "command"
    /\ UNCHANGED << startVars, fetchVars, cancelVars, retryVars, replyVars,
                    fileCfg, envCfg, flagCfg, entry, sent, ret, stdout,
                    prompted, acted, pollVars, timeVars, sigVars, choiceVars,
                    reqVars, ghostVars >>

\* resultsCmd: fs.Parse, the host check, promptForCredentials
ResultsCmdPrelude ==
    /\ pcMain = "command"
    /\ LET parsed == ParseFlags(cfg, flagCfg) IN
         IF parsed.host = Empty
           THEN /\ cfg' = parsed
                /\ Return(ErrHostRequired)
         ELSE IF ~CredentialsPresent(parsed) /\ entry = ReadFailed
           THEN /\ cfg' = parsed
                /\ Return(ErrPromptRead)
         ELSE /\ cfg' = PromptForCredentials(parsed, entry)
              /\ pcMain' = "start"
              /\ UNCHANGED << ret, ctxState, secondNotify >>
    /\ UNCHANGED << startVars, fetchVars, cancelVars, retryVars, replyVars,
                    fileCfg, envCfg, flagCfg, entry, sent, stdout, prompted,
                    acted, pollVars, tickReady, ticks, sigChan, sigNotify,
                    secondSigChan, signals, killed, choiceVars, reqVars,
                    ghostVars >>

InitConfig ==
    /\ ProcessIdle
    /\ NothingFetched
    /\ pcMain = "boot"
    /\ startResp = NoReq
    /\ sent = { }
    /\ query = << >>
    /\ searchField = NoField
    /\ limit = 0
    /\ total = 1
    /\ \E src \in Sources :
          /\ fileCfg = src.file
          /\ envCfg = src.env
          /\ flagCfg = src.flags
    /\ entry \in PromptEntries
    /\ cfg = ZeroCfg

NextConfig == Execute \/ ResultsCmdPrelude \/ NextResults

SpecConfig == InitConfig /\ [][NextConfig]_vars

-----------------------------------------------------------------------------
(* What the commands write to the diagnostic stream when cfg.Debug is set: *)
(* printDebugConfig's dump of the final configuration and doRequest's dump *)
(* of every request.  A dump is a string, a sequence of pieces.            *)

\* the concatenation of a sequence of strings
RECURSIVE Flatten(_)
Flatten(ss) == IF ss = << >> THEN << >> ELSE Head(ss) \o Flatten(Tail(ss))

\* strings.Index: where old first occurs in s, 0 when it does not
IndexOf(s, old) ==
    LET starts == { i \in 1..(Len(s) - Len(old) + 1) :
                       SubSeq(s, i, i + Len(old) - 1) = old }
    IN IF starts = { } THEN 0 ELSE CHOOSE i \in starts : \A j \in starts : i <= j

Contains(s, sub) == IndexOf(s, sub) > 0

\* strings.Replace(s, old, new, 1): the first occurrence only
ReplaceFirst(s, old, new) ==
    IF IndexOf(s, old) = 0 THEN s
    ELSE SubSeq(s, 1, IndexOf(s, old) - 1) \o new
         \o SubSeq(s, IndexOf(s, old) + Len(old), Len(s))

\* base64.StdEncoding as req.SetBasicAuth applies it: an encoding anyone can
\* undo, piece by piece here
Base64Piece(p) ==
    CASE p = "f" -> "Zg" [] p = "e" -> "ZQ" [] p = "g" -> "Zw"
      [] p = "typed" -> "dHlwZWQ" [] p = "tok" -> "dG9r" [] p = ":" -> "Og"
      [] p = " " -> "IA" [] OTHER -> "Pw"

Base64(s) == [i \in 1..Len(s) |-> Base64Piece(s[i])]

\* the Authorization header line of a request
AuthorizationLine(auth) ==
    IF auth.scheme = "Bearer"
      THEN << "Authorization: Bearer " >> \o auth.secret
    ELSE IF auth.scheme = "Basic"
      THEN << "Authorization: Basic " >>
           \o Base64(auth.user \o << ":" >> \o auth.secret)
    ELSE << >>

\* httputil.DumpRequestOut(req, true): the request line, the Host header,
\* the other headers
DumpRequestOut(req) ==
    << req.method, " /" >> \o Flatten(Tail(req.url)) \o << " HTTP/1.1" >>
    \o << "Host: " >> \o req.url[1]
    \o << "User-Agent: Go-http-client/1.1" >>
    \o AuthorizationLine(req.auth)

\* doRequest with c.Log.debug: the dump written, the token replaced once
RequestDump(c, req) ==
    IF c.token # Empty
      THEN ReplaceFirst(DumpRequestOut(req), c.token, << "<TOKEN>" >>)
      ELSE DumpRequestOut(req)

\* printDebugConfig: maskedToken, maskedPassword
MaskedToken(token) ==
    IF Len(token) > 8
      THEN << "toke..." >> \o SubSeq(token, Len(token) - 3, Len(token))
      ELSE Empty

MaskedPassword(password) ==
    IF password # Empty THEN << "********" >> ELSE Empty

\* every request dump written so far
RequestDumps == { RequestDump(cfg, req) : req \in sent }

-----------------------------------------------------------------------------
(* WaitForJob on its own, over every status response within the bounds:   *)
(* the state right after runCmd has started it.                            *)

InitWait ==
    /\ pcMain = "select"
    /\ ret = NoRet
    /\ stdout = 0
    /\ prompted = FALSE
    /\ acted = "none"
    /\ pcPoll = "wait"
    /\ errChan = << >>
    /\ tickReady = FALSE
    /\ ticks = 0
    /\ ctxState = "live"
    /\ lastResp = NoResp
    /\ sigChan = 0
    /\ sigNotify = TRUE
    /\ secondSigChan = 0
    /\ secondNotify = FALSE
    /\ signals = 0
    /\ killed = FALSE
    /\ pcChoice = "none"
    /\ line = << >>
    /\ choice = << >>
    /\ submitReqs = 1
    /\ statusReqs = 0
    /\ resultsReqs = 0
    /\ cancelReqs = 0
    /\ firstEvent = "none"
    /\ lateSignals = 0
    /\ promptPolls = 0
    /\ lateDeadlinePoll = FALSE
    /\ deadlineIdle = FALSE
    /\ lateInterrupt = FALSE
    /\ query = RunQuery
    /\ searchField = SearchField(RunQuery)
    /\ limit = 0
    /\ total \in RunTotals
    /\ startResp = [kind |-> "http", status |-> "201", body |-> "body"]
    /\ sent = { Request(RunCfg, "POST", JobsPath) }
    /\ NothingFetched
    /\ Configured

NextWait ==
    \/ PollCtxDone
    \/ PollTick
    \/ PollError(FailingReplies)
    \/ PollResponse(WaitResponses)
    \/ Tick
    \/ Deadline

SpecWait == InitWait /\ [][NextWait]_vars

-----------------------------------------------------------------------------
(* Properties.                                                             *)

\* C1: WaitForJob returns nil exactly when the status response it returned on
\* reports isDone with a dispatchState other than "FAILED"; every other
\* dispatchState, the empty one and "failed" included, is a success.
C1_SuccessIffDoneNotFailed ==
    pcPoll = "done" =>
        (errChan = << ErrNil >>
            <=> (lastResp # NoResp /\ lastResp.isDone
                 /\ lastResp.dispatchState # "FAILED"))

C1_Witness ==
    /\ pcPoll = "done"
    /\ errChan = << ErrNil >>
    /\ lastResp.isDone
    /\ lastResp.dispatchState = "failed"

\* the messages of severity FATAL or ERROR in any letter case, in order
C2_Qualifying(messages) ==
    SelectSeq(messages,
              LAMBDA m : ToLower(m.type) \in { << "e", "r", "r", "o", "r" >>,
                                               << "f", "a", "t", "a", "l" >> })

\* C2: on isDone with dispatchState "FAILED" WaitForJob's error holds one
\* bulleted line per FATAL/ERROR message (any letter case), in server order,
\* and none for another severity; with no such message it is the generic
\* 'search job <sid> failed'.
C2_FailedErrorListsErrors ==
    (pcPoll = "done" /\ lastResp.isDone /\ lastResp.dispatchState = "FAILED") =>
        LET q == C2_Qualifying(lastResp.messages)
            e == errChan[1]
        IN  /\ Len(errChan) = 1
            /\ e.type = "jobfailed"
            /\ IF q = << >>
               THEN e.text = << "search job ", Sid, " failed" >>
               ELSE /\ Len(e.text) = 3 + 2 * Len(q)
                    /\ SubSeq(e.text, 1, 3)
                         = << "search job ", Sid, " failed with errors:" >>
                    /\ \A i \in 1..Len(q) :
                         /\ e.text[2 + 2 * i] = "\n  - "
                         /\ e.text[3 + 2 * i] = q[i].text

C2_Witness ==
    /\ pcPoll = "done"
    /\ lastResp.isDone
    /\ lastResp.dispatchState = "FAILED"
    /\ lastResp.messages = << [type |-> S_WARN, text |-> "t1"],
                              [type |-> S_error, text |-> "t2"] >>
    /\ errChan[1].text = << "search job ", Sid, " failed with errors:",
                            "\n  - ", "t2" >>

\* C3: when the deadline elapses while WaitForJob is waiting, with no result
\* yet and no interrupt taken, run ends with the 'command timed out' error and
\* no status request is sent after the deadline.
C3_DeadlineEndsTimedOut ==
    (pcMain = "returned" /\ deadlineIdle /\ acted # "interrupt") =>
        (ret = ErrTimedOut /\ ~lateDeadlinePoll)

C5_OtherLines ==
    { << "\n" >>, << "c", "\n" >>, << "d", "e", "t", "a", "c", "h", "\n" >>, << >> }

\* C5: once the terminal read has returned a line that trims to something
\* other than "d"/"D", run fetches no results, and when it returns it has sent
\* exactly one cancel request and returns one of that request's outcomes.
C5_OtherInputCancelsOnce ==
    (pcChoice \in { "send", "done" }
     /\ (choice \notin { << "d" >>, << "D" >> } \/ line \in C5_OtherLines)) =>
        /\ resultsReqs = 0
        /\ stdout = 0
        /\ pcMain \in { "arming", "choose", "cancel" } => cancelReqs = 0
        /\ pcMain = "returned" => (cancelReqs = 1 /\ ret \in CancelOutcomes)
        /\ pcChoice = "done" => pcMain \in { "cancel", "returned" }

C5_Witness ==
    /\ pcMain = "returned"
    /\ pcChoice = "done"
    /\ line = << "d", "e", "t", "a", "c", "h", "\n" >>
    /\ cancelReqs = 1
    /\ ret = ErrCancelFailed

\* C6: once the interrupt branch is taken, no signal meets the default
\* disposition, and a run in which a further signal arrived before the
\* operator answered ends having sent exactly one cancel request.
C6_EveryLateSignalCancels ==
    /\ acted = "interrupt" => ~killed
    /\ (pcMain = "returned" /\ acted = "interrupt" /\ lateSignals > 0)
          => cancelReqs = 1

C8_NoPollWhilePrompted == promptPolls = 0

\* C9: with the deadline elapsed while run waits for the operator's choice,
\* no input read and no second signal pending, run still has a step to take.
C9_DeadlineAbortsChoiceWait ==
    (pcMain = "choose" /\ ctxState = "DeadlineExceeded" /\ pcChoice = "read"
     /\ secondSigChan = 0 /\ ~killed)
        => ENABLED MainStep

\* C10: when run has returned, the choice goroutine has finished and the poll
\* goroutine has finished or will on its next select.
C10_NoGoroutineOutlivesRun ==
    pcMain = "returned" =>
        /\ pcChoice \in { "none", "done" }
        /\ pcPoll \in { "idle", "done" } \/ CtxDone


\* C11: CancelSearch sends one POST to the job's control endpoint with the
\* body action=cancel; it returns nil exactly when the reply is HTTP 200, an
\* error carrying the status and the body for any other HTTP reply, and an
\* error when the request fails in transport.
C11_CancelOnePostOkIff200 ==
    cancelReqs >= 1 =>
        /\ cancelReqs = 1
        /\ cancelReq.method = "POST"
        /\ cancelReq.path = << "search", "jobs", Sid, "control" >>
        /\ cancelReq.body = "action=cancel"
        /\ pcMain = "returned"
        /\ (ret = ErrNil) <=> (cancelResp.kind = "http" /\ cancelResp.status = "200")
        /\ (cancelResp.kind = "http" /\ cancelResp.status # "200") =>
               /\ ret.type = "cancelfailed"
               /\ ret.text[2] = cancelResp.status
               /\ ret.text[4] = cancelResp.body
        /\ cancelResp.kind = "transport" => ret.type = "transport"

C11_Witness ==
    /\ cancelReqs = 1
    /\ cancelResp.kind = "http"
    /\ cancelResp.status = "201"
    /\ cancelResp.body = "body"
    /\ ret.type = "cancelfailed"


\* C12: with limit 0 and every page reply holding exactly the range asked
\* for, Results returns exactly the job's total records, in server order,
\* whatever the total, 0 included.
C12_LimitZeroReturnsAll ==
    (pcFetch = "returned" /\ limit = 0 /\ ~inexact) =>
        /\ payload.kind = "json"
        /\ payload.key = "results"
        /\ IsRange(payload.records, 0, total)
        /\ RecordCount(payload.records) = total

C12_Witness ==
    /\ limit = 0
    /\ total = 120000
    /\ ~inexact
    /\ pcFetch = "returned"
    /\ Len(payload.records) = 3
    /\ pcMain = "returned"
    /\ ret = ErrNil
    /\ stdout = 1

\* C13: with 0 < limit < total and exact page replies, Results returns
\* exactly the first limit records in server order, also when the limit is
\* more than one page or not a multiple of the page size.
C13_LimitReturnsFirstL ==
    (pcFetch = "returned" /\ limit > 0 /\ limit < total /\ ~inexact) =>
        /\ payload.kind = "json"
        /\ IsRange(payload.records, 0, limit)
        /\ RecordCount(payload.records) = limit

C13_Witness ==
    /\ limit = 60000
    /\ total = 120000
    /\ ~inexact
    /\ pcFetch = "returned"
    /\ Len(pageReqs) = 2
    /\ payload.records = << [from |-> 0, n |-> 50000], [from |-> 50000, n |-> 10000] >>

\* C14: for every limit and every total >= 0, the number of records Results
\* sets out to fetch is the limit when 0 < limit <= total and the total
\* otherwise (limit 0, limit above the total, negative limit).
C14_FetchCountByLimit ==
    pcFetch \in { "loop", "page", "returned" } =>
        fetchCount = IF limit > 0 /\ limit <= total THEN limit ELSE total

\* C15: for a fetch count F >= 0 the page requests are sent one at a time,
\* the i-th (from 0) with offset i * 50000 and count min(50000, F - i * 50000);
\* when Results returns there are ceil(F / 50000) of them and their ranges,
\* taken in order, are [0, F) without gap or overlap.
C15_PagesTileFetchCount ==
    ((pcFetch \in { "loop", "page", "returned" } \/ failedAt > 0) /\ fetchCount >= 0) =>
        /\ resultsReqs = Len(pageReqs)
        /\ \A i \in 1..Len(pageReqs) :
               /\ pageReqs[i].offset = (i - 1) * 50000
               /\ pageReqs[i].count =
                     IF fetchCount - (i - 1) * 50000 < 50000
                       THEN fetchCount - (i - 1) * 50000 ELSE 50000
               /\ pageReqs[i].count > 0
        /\ pcFetch = "page" => offset = pageReqs[Len(pageReqs)].offset
        /\ pcFetch = "returned" =>
               /\ Len(pageReqs) = (fetchCount + 49999) \div 50000
               /\ IsRange([i \in 1..Len(pageReqs) |->
                              [from |-> pageReqs[i].offset, n |-> pageReqs[i].count]],
                          0, fetchCount)

C15_Witness ==
    /\ total = 120000
    /\ limit = 0
    /\ pcFetch = "returned"
    /\ Len(pageReqs) = 3
    /\ pageReqs[1].offset = 0 /\ pageReqs[1].count = 50000
    /\ pageReqs[2].offset = 50000 /\ pageReqs[2].count = 50000
    /\ pageReqs[3].offset = 100000 /\ pageReqs[3].count = 20000

\* C16: when a page request fails (transport, status other than 200,
\* undecodable body), Results returns that error and no payload, the pages
\* already fetched are dropped, and no further page is requested.
C16_PageFailureEndsFetch ==
    failedAt > 0 =>
        /\ pcFetch = "failed"
        /\ fetchErr \in { ErrTransport, ErrAPI, ErrPageDecode }
        /\ payload = NoPayload
        /\ Len(pageReqs) = failedAt
        /\ resultsReqs = failedAt
        /\ stdout = 0
        /\ pcMain = "returned" => ret = fetchErr

C16_Witness ==
    /\ failedAt = 2
    /\ limit = 0
    /\ total = 120000
    /\ allResults = << [from |-> 0, n |-> 50000] >>
    /\ payload = NoPayload
    /\ Len(pageReqs) = 2
    /\ pcMain = "returned"
    /\ ret = ErrPageDecode
    /\ stdout = 0

\* C17: a run that prints results prints, the server having sent all it was
\* asked for, exactly the first limit records when 0 < limit < total and all
\* the job's records otherwise.
C17_RunAppliesLimit ==
    (pcMain = "returned" /\ ret = ErrNil /\ stdout = 1 /\ ~inexact) =>
        IsRange(payload.records, 0,
                IF limit > 0 /\ limit < total THEN limit ELSE total)

\* C18: a run with limit 0 whose job finished DONE with 3 results has sent
\* one job-creation request and no cancel request, and its fetch sent exactly
\* one page request, with offset 0 and count 3, and returned the 3 records
\* under "results".
C18_EndToEndTrace ==
    (pcMain = "returned" /\ ret = ErrNil /\ stdout = 1 /\ limit = 0
     /\ total = 3 /\ ~inexact) =>
        /\ submitReqs = 1
        /\ cancelReqs = 0
        /\ statusReqs >= 1
        /\ Len(pageReqs) = 1
        /\ "offset" \in DOMAIN pageReqs[1] /\ pageReqs[1].offset = 0
        /\ "count" \in DOMAIN pageReqs[1] /\ pageReqs[1].count = 3
        /\ payload.key = "results"
        /\ IsRange(payload.records, 0, 3)

\* C19: the search field StartSearch submits is "search " followed by the
\* query when the first character of the query that is not white space is
\* not a pipe (or there is none), and the query itself, unmodified, when it
\* is a pipe.
C19_PipeFirst ==
    \E i \in 1..Len(query) :
        /\ query[i] = "|"
        /\ \A j \in 1..(i - 1) : query[j] \in WhiteSpace

C19_SearchFieldNormalised ==
    searchField # NoField =>
        /\ C19_PipeFirst => searchField = query
        /\ ~C19_PipeFirst =>
               /\ Len(searchField) = Len(query) + 7
               /\ SubSeq(searchField, 1, 7) = << "s", "e", "a", "r", "c", "h", " " >>
               /\ SubSeq(searchField, 8, Len(searchField)) = query

C19_Witness ==
    /\ query = << " ", "|", "a" >>
    /\ searchField = query
    /\ pcMain = "returned"
    /\ stdout = 1


\* C20: nothing is retried.  No status request follows a failed one: the
\* first failure ends WaitForJob with that error, whatever ticks are still
\* pending; and one run sends at most one job-creation request, one cancel
\* request and one results request.
C20_NoRetry ==
    /\ statusAfterFail = 0
    /\ pollFailures <= 1
    /\ pollFailures = 1 =>
           /\ pcPoll = "done"
           /\ errChan = << >> \/ (Len(errChan) = 1 /\ errChan[1] \in StatusErrors)
    /\ submitReqs <= 1
    /\ cancelReqs <= 1
    /\ resultsReqs <= 1

C20_Witness ==
    /\ pollFailures = 1
    /\ statusReqs = 1
    /\ tickReady
    /\ pcPoll = "done"
    /\ pcMain = "returned"
    /\ ret \in StatusErrors


\* C21: when the reply to the job-creation request is an HTTP response of any
\* status other than 201, StartSearch returns an error holding that status
\* and the body, and the command returns it having sent no status, results
\* or cancel request, armed no signal handling and started no wait.
C21_Non201FailsSubmit ==
    (startResp.kind = "http" /\ startResp.status # "201") =>
        /\ pcMain = "returned"
        /\ ret.type = "api"
        /\ ret.text[2] = startResp.status
        /\ ret.text[4] = startResp.body
        /\ statusReqs = 0 /\ resultsReqs = 0 /\ cancelReqs = 0
        /\ ~sigNotify /\ ~secondNotify /\ ~prompted
        /\ ctxState = "none"
        /\ pcPoll = "idle"
        /\ stdout = 0

C21_Witness ==
    /\ startResp.kind = "http"
    /\ startResp.status = "200"
    /\ pcMain = "returned"
    /\ ret = ApiError("200", "body")
    /\ submitReqs = 1


\* C22: a JobStatus call of WaitForJob returns the error "job status not
\* found in response" exactly when the reply is an HTTP 200 whose body has
\* no entry or an empty entry list; that error is neither the transport
\* error nor the error of a status other than 200, and it ends the wait as
\* an error, not as a finished or failed job.
C22_NotFoundIsDistinct ==
    statusReply # NoReq =>
        /\ pcPoll = "done"
        /\ Len(errChan) = 1
        /\ (errChan[1] = ErrNotFound) <=>
               (statusReply.kind = "http" /\ statusReply.status = "200"
                /\ statusReply.body # "body")
        /\ errChan[1] = ErrNotFound =>
               /\ errChan[1].text = << "job status not found in response" >>
               /\ errChan[1] \notin { ErrTransport, ErrHTTPTimeout, ErrDecode,
                                      ApiError("404", "body"), ApiError("500", "body") }
        /\ errChan[1] # ErrNil
        /\ errChan[1].type # "jobfailed"
        /\ lastResp = NoResp

C22_Witness ==
    /\ statusReply = [kind |-> "http", status |-> "200", body |-> "{\"entry\":[]}"]
    /\ errChan = << ErrNotFound >>
    /\ pcPoll = "done"


\* C23: with an empty query no job-creation request is sent and the command
\* does not return nil.
C23_EmptyQueryRejected ==
    query = << >> =>
        /\ submitReqs = 0
        /\ searchField = NoField
        /\ pcMain = "returned" => ret # ErrNil


\* C24: no request leaves without an Authorization header: a command whose
\* configuration has neither a token nor a user with a password when it is
\* about to contact the server returns an error having sent nothing.
C24_NoRequestWithoutCredentials ==
    /\ \A r \in sent : r.auth.scheme # "none"
    /\ (pcMain = "returned"
        /\ cfg.token = << >> /\ (cfg.user = << >> \/ cfg.password = << >>)) =>
           /\ sent = { }
           /\ ret # ErrNil

\* C25: every request of a command carries the same, single Authorization
\* header: Bearer with the token when a token is configured, whether or not
\* a user and a password are configured too, and Basic with the user and the
\* password when there is no token and both are configured.
C25_BearerBeforeBasic ==
    \A r \in sent :
        /\ r.auth.scheme \in { "Bearer", "Basic", "none" }
        /\ cfg.token # << >> =>
               r.auth = [scheme |-> "Bearer", user |-> << >>, secret |-> cfg.token]
        /\ (cfg.token = << >> /\ cfg.user # << >> /\ cfg.password # << >>) =>
               r.auth = [scheme |-> "Basic", user |-> cfg.user, secret |-> cfg.password]
        /\ \A q \in sent : q.auth = r.auth

C25_Witness ==
    /\ cfg.token = << "f" >>
    /\ cfg.user = << "f" >>
    /\ cfg.password = << "f" >>
    /\ Cardinality(sent) = 2
    /\ \A r \in sent : r.auth.scheme = "Bearer"
    /\ pcMain = "returned"

\* C26: the URL of every request is the host followed by services and the
\* endpoint's path when no app is configured, whatever the owner; and by
\* servicesNS, the owner ("nobody" when it is empty), the app and the
\* endpoint's path when an app is configured.
C26_Paths ==
    { << << "search" >>, << "jobs" >>, << Sid >> >>,
      << << "search" >>, << "jobs" >>, << Sid >>, << "results" >> >> }

C26_URLByAppAndOwner ==
    \A r \in sent :
        /\ r.url[1] = cfg.host
        /\ cfg.app = << >> =>
               /\ r.url[2] = << "services" >>
               /\ SubSeq(r.url, 3, Len(r.url)) \in C26_Paths
        /\ cfg.app # << >> =>
               /\ r.url[2] = << "servicesNS" >>
               /\ r.url[3] = IF cfg.owner = << >> THEN << "nobody" >> ELSE cfg.owner
               /\ r.url[4] = cfg.app
               /\ SubSeq(r.url, 5, Len(r.url)) \in C26_Paths

C26_Witness ==
    /\ cfg.app = << "f" >>
    /\ cfg.owner = << >>
    /\ Cardinality(sent) = 2
    /\ \A r \in sent : r.url[3] = << "nobody" >>
    /\ pcMain = "returned"


\* C29 as stated: for each of host, token, user, password and app the value
\* the command works with is the flag's when the flag is given, else the
\* environment variable's when that is not empty, else the file's.
C29_FlagEnvFile ==
    pcMain \notin { "boot", "command" } =>
        \A k \in { "host", "token", "user", "password", "app" } :
            cfg[k] = IF flagCfg[k].given THEN flagCfg[k].value
                     ELSE IF envCfg[k] # << >> THEN envCfg[k]
                     ELSE fileCfg[k]

\* C29, amended: the file's value counts with its surrounding white space
\* removed; and when flags, environment and file leave neither a token nor
\* a user with a password, the token (when there is no user) or the password
\* (when there is a user) is what the operator types at the prompt.
C29_Resolved(k) ==
    IF flagCfg[k].given THEN flagCfg[k].value
    ELSE IF envCfg[k] # << >> THEN envCfg[k]
    ELSE TrimSpace(fileCfg[k])

C29_Asked ==
    IF C29_Resolved("host") = << >> \/ entry = ReadFailed
         \/ C29_Resolved("token") # << >>
         \/ (C29_Resolved("user") # << >> /\ C29_Resolved("password") # << >>)
      THEN "nothing"
    ELSE IF C29_Resolved("user") = << >> THEN "token" ELSE "password"

C29_FlagEnvTrimmedFileOrPrompt ==
    pcMain \notin { "boot", "command" } =>
        \A k \in { "host", "token", "user", "password", "app" } :
            cfg[k] = IF C29_Asked = k THEN entry ELSE C29_Resolved(k)

C29_Witness ==
    /\ pcMain = "returned"
    /\ flagCfg.token = [given |-> TRUE, value |-> << "g" >>]
    /\ envCfg.token = << "e" >>
    /\ fileCfg.token = << " ", "f" >>
    /\ cfg.token = << "g" >>
    /\ Cardinality(sent) = 2


\* C28: the results command sends a results request only after a status
\* request that reported isDone = true with a dispatchState other than
\* "FAILED"; after any other report it returns the 'not complete yet' or the
\* 'failed' error, sends no results request and writes nothing to stdout.
C28_ResultsOnlyWhenDone ==
    /\ resultsReqs > 0 =>
          /\ cmdStatus.isDone
          /\ cmdStatus.dispatchState # "FAILED"
    /\ (cmdStatus # NoResp /\ ~cmdStatus.isDone) =>
          /\ pcMain = "returned"
          /\ ret = ErrNotComplete(Sid, cmdStatus.dispatchState)
          /\ resultsReqs = 0
          /\ stdout = 0
    /\ (cmdStatus.isDone /\ cmdStatus.dispatchState = "FAILED") =>
          /\ pcMain = "returned"
          /\ ret = ErrCannotGetResults(Sid)
          /\ resultsReqs = 0
          /\ stdout = 0

C28_Witness ==
    /\ pcMain = "returned"
    /\ cmdStatus # NoResp
    /\ ~cmdStatus.isDone
    /\ ret.type = "notcomplete"
    /\ statusReqs = 1
    /\ resultsReqs = 0

\* C30: Results sends exactly one status request before any page request,
\* computes the number of records to retrieve from the total of that
\* snapshot, and sends no page request when that status request fails or
\* when the number of records to retrieve is 0.
C30_OneStatusThenPages ==
    /\ pcFetch \in { "loop", "page", "returned" } =>
          /\ statusReqs = 2
          /\ fetchCount = FetchCount(limit, total)
    /\ pageReqs # << >> => pcFetch \in { "loop", "page", "returned", "failed" }
                             /\ statusReqs = 2
    /\ (pcFetch = "failed" /\ failedAt = 0) =>
          /\ statusReqs = 2
          /\ pageReqs = << >>
          /\ resultsReqs = 0
    /\ (pcFetch \in { "loop", "returned" } /\ fetchCount <= 0) =>
          /\ pageReqs = << >>
          /\ resultsReqs = 0

C30_Witness ==
    /\ pcFetch = "returned"
    /\ total > 0
    /\ fetchCount = total
    /\ statusReqs = 2
    /\ Len(pageReqs) = 1


\* C27: on the DONE path run returns an error of Results unchanged; stdout
\* receives the results payload exactly once and only when the fetch
\* succeeded; a run that ends in a submit error, a poll error, a job
\* failure, a timeout, a fetch error, a cancel or a detach writes nothing
\* to stdout.
C27_StdoutOnlyOnFetchSuccess ==
    /\ stdout <= 1
    /\ stdout = 1 =>
          /\ pcMain = "returned"
          /\ ret = ErrNil
          /\ acted = "poll"
          /\ resultsReqs = 1
          /\ fetchErr = ErrNil
          /\ payload # NoPayload
          /\ cancelReqs = 0
    /\ fetchErr # ErrNil =>
          /\ pcMain = "returned"
          /\ ret = fetchErr
          /\ stdout = 0
    /\ (pcMain = "returned"
        /\ (ret # ErrNil \/ resultsReqs = 0 \/ cancelReqs > 0
            \/ acted \in { "deadline", "interrupt" })) => stdout = 0
    /\ (pcMain = "returned" /\ ret = ErrNil /\ resultsReqs = 1) => stdout = 1

C27_Witness ==
    /\ pcMain = "returned"
    /\ resultsReqs = 1
    /\ fetchErr = ErrAPI
    /\ ret = ErrAPI
    /\ stdout = 0
    /\ lastResp.isDone


\* C31: a page reply that holds fewer or more records than the count asked
\* for does not make Results fail: the page requests sent are exactly those
\* computed from the snapshot's fetch count, every one of them is answered,
\* and what Results returns is the records of the replies, concatenated in
\* the order of the requests.
RECURSIVE C31_Concatenated(_)
C31_Concatenated(k) ==
    IF k = 0 THEN << >>
    ELSE IF served[k] = 0 THEN C31_Concatenated(k - 1)
    ELSE Append(C31_Concatenated(k - 1),
                [from |-> pageReqs[k].offset, n |-> served[k]])

C31_MismatchDoesNotFail ==
    pcFetch \in { "loop", "page", "returned", "failed" } /\ pcMain # "start" =>
        /\ \A i \in 1..Len(pageReqs) :
              /\ (i - 1) * maxCount < fetchCount
              /\ pageReqs[i] = PageRequest((i - 1) * maxCount,
                                           PageCount((i - 1) * maxCount, fetchCount))
        /\ Len(served) <= Len(pageReqs)
        /\ allResults = C31_Concatenated(Len(served))
        /\ pcFetch = "failed" =>
              /\ fetchErr \in PageErrors \cup { ErrStatusBeforeFetch(e) : e \in StatusErrors }
              /\ Len(served) = IF failedAt = 0 THEN 0 ELSE failedAt - 1
        /\ pcFetch = "returned" =>
              /\ Len(served) = Len(pageReqs)
              /\ ~(Len(pageReqs) * maxCount < fetchCount)
              /\ fetchErr = ErrNil
              /\ payload = MarshalResults(C31_Concatenated(Len(served)))

C31_Witness ==
    /\ pcFetch = "returned"
    /\ pcMain = "returned"
    /\ ret = ErrNil
    /\ stdout = 1
    /\ Len(pageReqs) = 3
    /\ served[1] = maxCount + 1
    /\ served[3] < pageReqs[3].count
    /\ RecordCount(payload.records) # fetchCount


\* C32: WaitForJob's status requests are strictly sequential: a request
\* goes out only from the select, with no earlier request outstanding, one
\* at a time, each on a tick of its own; none goes out before the first
\* tick, so no status, a finished job's included, is reported before one
\* poll interval has passed.
C32_SequentialPollsAfterFirstTick ==
    /\ [](statusReqs <= ticks)
    /\ []((pcPoll = "request" \/ lastResp # NoResp \/ pollFailures > 0) => ticks >= 1)
    /\ [][statusReqs' # statusReqs =>
             /\ pcPoll = "wait"
             /\ pcPoll' = "request"
             /\ statusReqs' = statusReqs + 1
             /\ tickReady /\ ~tickReady']_vars
    /\ [][pcPoll = "request" => statusReqs' = statusReqs]_vars

C32_Witness ==
    /\ pcPoll = "done"
    /\ lastResp.isDone
    /\ statusReqs = 2
    /\ ticks = 2


\* C33: run sends a results request only after its WaitForJob returned on a
\* status response with isDone = true and a dispatchState other than
\* "FAILED", and run took that result; never after a wait that ended in a
\* poll error, a job failure, the deadline or a cancelled context, nor after
\* a cancel or a detach.
C33_ResultsOnlyAfterDone ==
    (resultsReqs > 0 \/ pcMain = "fetch") =>
        /\ acted = "poll"
        /\ pcPoll = "done"
        /\ lastResp.isDone
        /\ lastResp.dispatchState # "FAILED"
        /\ pollFailures = 0
        /\ ~prompted
        /\ cancelReqs = 0
        /\ resultsReqs <= 1
        /\ ret \notin { ErrTimedOut, ErrCancelFailed }
        /\ ret.type # "jobfailed"

C33_Witness ==
    /\ resultsReqs = 1
    /\ pcMain = "returned"
    /\ lastResp.isDone
    /\ lastResp.dispatchState = ""
    /\ statusReqs = 2


\* C34: in one run at most one cancel request is sent for the job, and a
\* cancel request and a results request are never both sent.
C34_OneCancelNeverWithResults ==
    /\ cancelReqs <= 1
    /\ ~(cancelReqs > 0 /\ resultsReqs > 0)
    /\ cancelReqs = 1 =>
          /\ pcMain = "returned"
          /\ acted = "interrupt"
          /\ ret = CancelResult(cancelResp)
          /\ stdout = 0

C34_Witness ==
    /\ cancelReqs = 1
    /\ pcMain = "returned"
    /\ ret = ErrNil
    /\ pcPoll = "done"
    /\ lastResp.isDone
    /\ lastResp.dispatchState = "DONE"
    /\ resultsReqs = 0

\* C35: a run that ends with the timeout error, a poll error or a
\* job-failure error has sent no cancel request, nor any other request
\* after the wait: the client leaves the remote job as it is.
C35_NoCancelOnWaitFailure ==
    /\ acted \in { "poll", "deadline" } => cancelReqs = 0 /\ pcMain # "cancel"
    /\ (pcMain = "returned"
        /\ (ret = ErrTimedOut \/ ret.type = "jobfailed"
            \/ (acted = "poll" /\ pollFailures > 0 /\ ret = JobStatusError(statusReply)))) =>
          /\ resultsReqs = 0
          /\ cancelReqs = 0
          /\ cancelReq = NoReq
          /\ acted \in { "poll", "deadline" }
          /\ \A r \in sent : r.method = "POST" => r.url = Request(cfg, "POST", JobsPath).url

C35_Witness ==
    /\ pcMain = "returned"
    /\ ret = ErrTimedOut
    /\ acted = "deadline"
    /\ statusReqs = 1
    /\ cancelReqs = 0


\* C36: once run has taken the wait's result, a signal that arrives later
\* has no effect on the run: no prompt is shown, no cancel request is sent,
\* the process is not ended by the signal, and the results fetch goes ahead
\* and ends in its own success or error.
C36_LateInterruptIgnored ==
    (acted \in { "poll", "deadline" } \/ (pcPoll = "done" /\ errChan = << >>)) =>
        /\ acted \in { "poll", "deadline" }
        /\ pcPoll = "done"
        /\ errChan = << >>
        /\ ~prompted
        /\ pcChoice = "none"
        /\ cancelReqs = 0
        /\ ~killed
        /\ pcMain \in { "fetch", "returned" }
        /\ pcMain = "fetch" => ENABLED Results
        /\ (pcMain = "returned" /\ resultsReqs = 1) =>
              /\ ret \in { ErrNil } \cup ResultsErrors
              /\ stdout = Printed(ret)

C36_Witness ==
    /\ lateInterrupt
    /\ acted = "poll"
    /\ signals = 2
    /\ sigChan = 2
    /\ pcMain = "returned"
    /\ resultsReqs = 1
    /\ ret = ErrNil
    /\ stdout = 1


\* C37: a status response with isDone = false never ends the wait, whatever
\* its dispatchState and messages: WaitForJob returns only on a response
\* with isDone = true, on a status error, or on the context's end, and after
\* any other response it is back at its select.
C37_NotDoneKeepsPolling ==
    /\ [](pcPoll = "done" =>
             \/ lastResp.isDone /\ pollFailures = 0
             \/ lastResp = NoResp /\ pollFailures = 1
             \/ lastResp = NoResp /\ pollFailures = 0 /\ CtxDone)
    /\ [][(pcPoll = "request" /\ pcPoll' = "done") =>
              (lastResp'.isDone \/ pollFailures' = pollFailures + 1)]_vars
    /\ [][(pcPoll = "request" /\ pollFailures' = pollFailures /\ ~lastResp'.isDone
            /\ pcPoll' # pcPoll) =>
              (pcPoll' = "wait" /\ errChan' = errChan)]_vars
    /\ [][(pcPoll = "wait" /\ pcPoll' = "done") => CtxDone]_vars

C37_Witness ==
    /\ pcPoll = "done"
    /\ statusReqs = 2
    /\ pollFailures = 0
    /\ ctxState = "live"
    /\ lastResp.isDone
    /\ lastResp.dispatchState = "FAILED"
    /\ errChan # << >>


\* C38: with a finite timeout, every request answered and no signal, run
\* always terminates, even when no status response ever has isDone = true:
\* it eventually returns, and a run that had started its wait returns with
\* the results fetched (or the fetch's error), a job-failure error, a poll
\* error or the timeout error.
C38_RunTerminates ==
    /\ <>(pcMain = "returned")
    /\ [](pcMain = "returned" /\ pcPoll # "idle" =>
             \/ resultsReqs = 1 /\ ret \in { ErrNil } \cup ResultsErrors
             \/ resultsReqs = 0 /\ ret.type = "jobfailed"
             \/ resultsReqs = 0 /\ pollFailures > 0 /\ ret = JobStatusError(statusReply)
             \/ resultsReqs = 0 /\ ret = ErrTimedOut)

C38_Witness ==
    /\ pcMain = "returned"
    /\ ret = ErrTimedOut
    /\ ticks = MaxTicks
    /\ statusReqs = MaxTicks
    /\ pollFailures = 0
    /\ lastResp = NoResp
    /\ signals = 0


\* C39: with debug logging on, nothing written to the diagnostic stream
\* reveals the credentials: the configuration dump shows neither the token
\* nor the password, no request dump holds the token in full, and no
\* request dump holds the password, in clear or encoded in the value of the
\* Basic Authorization header.
C39_DebugHidesCredentials ==
    /\ cfg.token # Empty => ~Contains(MaskedToken(cfg.token), cfg.token)
    /\ cfg.password # Empty => ~Contains(MaskedPassword(cfg.password), cfg.password)
    /\ \A req \in sent :
          /\ cfg.token # Empty => ~Contains(RequestDump(cfg, req), cfg.token)
          /\ req.auth.scheme = "Basic" =>
                /\ ~Contains(AuthorizationLine(req.auth), req.auth.secret)
                /\ ~Contains(RequestDump(cfg, req),
                             Base64(req.auth.user \o << ":" >> \o req.auth.secret))

====
